---- MODULE Spec2Model ----
(***************************************************************************)
(* anevicon: the dispatch-and-retry engine of src/src/testing.rs.          *)
(*                                                                         *)
(* execute_testers waits, computes the batch plan, initializes one socket  *)
(* per receiver (init_sockets), spawns one worker thread per socket and    *)
(* returns the join handles.  Each worker sends sendings_count batches of  *)
(* packets_per_syscall packets, one batch of remaining_packets packets,    *)
(* computes the shortfall of its TestSummary and resends it packet by      *)
(* packet (resend_packets).                                                *)
(*                                                                         *)
(* Tester and TestSummary belong to the anevicon_core crate, whose source  *)
(* is not part of src/: send_multiple, send_once and the summary counters  *)
(* are modelled from the collaborator contract of the specification.       *)
(***************************************************************************)
EXTENDS Integers, Sequences, FiniteSets, TLC

\* ------------------------------------------------------------------ bounds
\* Largest packets_count and packets_per_syscall the dispatcher is run with.
MaxPackets == 3
MaxBatch == 2
\* The log keeps count of failed single-packet sends up to this number
\* (the retries themselves are not limited).
MaxRetries == 1
\* Largest inputs of the batch planner when it is run alone.
MaxPlanInput == 12
\* Largest packets_count and packets_per_syscall of the runs whose
\* termination is checked; these runs take the two largest batch sizes (the
\* runs with the smallest batches are the longest).
MaxLivePackets == 2
MaxLiveBatch == 2
\* Longest packet file, longest random packet and longest command-line
\* argument (beside the listed ones) the helpers are called with.
MaxFileLen == 3
MaxPacketLen == 3
MaxTextLen == 2

VARIABLES
    packets_count,        \* config.exit_config.packets_count
    packets_per_syscall,  \* config.network_config.packets_per_syscall
    dpc,                  \* position of execute_testers
    remaining_packets,    \* local of execute_testers
    sendings_count,       \* local of execute_testers
    sockets,              \* the Vec<UdpSocket> built by init_sockets
    handles,              \* the Vec<JoinHandle> collected by execute_testers
    result,               \* what execute_testers returned (or its panic)
    worker,               \* per worker: position, locals, socket, summary
    log,                  \* per worker: what it logged and attempted
    wire,                 \* per receiver: packets put on the wire to it
    call                  \* a call of a helper: function, argument, result

vars == << packets_count, packets_per_syscall, dpc, remaining_packets,
           sendings_count, sockets, handles, result, worker, log, wire,
           call >>

\* config.network_config.receivers: the destination addresses the engine is
\* run with, in list order (two distinct receivers, so that two workers run
\* concurrently).
receivers == << 9001, 9002 >>

NumReceivers == Len(receivers)

\* A worker is known by the index of its receiver.
Workers == 1 .. NumReceivers

Addresses == {receivers[i] : i \in Workers}

NoSocket == 0
NoName == 0

\* execute_testers has not returned yet.
NoResult == [kind |-> "none", step |-> "none", at |-> 0]

\* No helper is being called: the engine runs on a configuration and a
\* packet that were built before it started.
NoCall ==
    [fn |-> "none",
     arg |-> [has_file |-> FALSE, readable |-> FALSE, data |-> << >>,
              length |-> 0, stream |-> << >>],
     ret |-> [tag |-> "Pending", value |-> << >>, error |-> "none"]]

\* The steps of init_sockets that can fail with `?`.
InitSteps == {"bind", "connect", "set_broadcast", "set_write_timeout"}

\* ------------------------------------------------------- the batch planner
remaining_packets_of(count, per_syscall) == count % per_syscall

\* Variant: the batches are counted by rounding up.
sendings_count_of_ceil(count, per_syscall) ==
    (count + per_syscall - 1) \div per_syscall

sendings_count_of(count, per_syscall) ==
    (count - remaining_packets_of(count, per_syscall)) \div per_syscall

\* Variant: the range is inclusive, one portion too many.
generate_portions_inclusive(length) == [j \in 1 .. length + 1 |-> 0]

\* generate_portions(length, packet): `length` portions (0, packet).
generate_portions(length) == [j \in 1 .. length |-> 0]

\* ------------------------------------------- anevicon_core (from the spec)
\* TestSummary::default()
TestSummaryDefault == [packets_expected |-> 0, packets_sent |-> 0]

\* Tester::send_multiple on `portions` of which `confirmed` went out: every
\* entry is counted as expected, the confirmed ones as sent.
send_multiple(summary, portions, confirmed) ==
    [packets_expected |-> summary.packets_expected + Len(portions),
     packets_sent |-> summary.packets_sent + confirmed]

\* The result of that call: an aggregate error if any entry failed.
send_multiple_is_err(portions, confirmed) == confirmed < Len(portions)

\* Tester::send_once that succeeded: one more packet sent.
send_once(summary) ==
    [summary EXCEPT !.packets_sent = summary.packets_sent + 1]

\* ------------------------------------------------------------ worker state
WorkerInit ==
    [pc |-> "unspawned", name |-> NoName, socket |-> NoSocket,
     ordinary |-> << >>, remaining |-> << >>,
     summary |-> TestSummaryDefault,
     iter |-> 0, unsent |-> 0, resent |-> 0, expired |-> FALSE]

LogInit ==
    [loop_sends |-> 0, remainder_sends |-> 0, send_multiple_errors |-> 0,
     unconfirmed |-> 0, summaries |-> 0, expired_notices |-> 0,
     sends_after_expiry |-> 0,
     packets_sent_reports |-> 0, resend_starts |-> 0, resend_ends |-> 0,
     once_ok |-> 0, once_err |-> 0, once_err_odd |-> FALSE]

Init ==
    /\ packets_count \in 1 .. MaxPackets
    /\ packets_per_syscall \in 1 .. MaxBatch
    /\ dpc = "wait"
    /\ remaining_packets = 0
    /\ sendings_count = 0
    /\ sockets = << >>
    /\ handles = << >>
    /\ result = NoResult
    /\ worker = [i \in Workers |-> WorkerInit]
    /\ log = [i \in Workers |-> LogInit]
    /\ wire = [a \in Addresses |-> 0]
    /\ call = NoCall

\* ------------------------------------------------------------- dispatcher
\* wait(config.wait): the initial sleep of execute_testers.
Wait ==
    /\ dpc = "wait"
    /\ dpc' = "plan"
    /\ UNCHANGED << call, packets_count, packets_per_syscall, remaining_packets,
                    sendings_count, sockets, handles, result, worker, log, wire >>

\* The two `let` of execute_testers that compute the plan.
Plan ==
    /\ dpc = "plan"
    /\ remaining_packets' = remaining_packets_of(packets_count, packets_per_syscall)
    /\ sendings_count' = sendings_count_of(packets_count, packets_per_syscall)
    /\ dpc' = "init"
    /\ UNCHANGED << call, packets_count, packets_per_syscall, sockets, handles,
                    result, worker, log, wire >>

\* Variant: the workers are spawned as soon as one socket is ready.
InitSocketOkEager ==
    /\ dpc = "init"
    /\ Len(sockets) < NumReceivers
    /\ sockets' = Append(sockets, receivers[Len(sockets) + 1])
    /\ dpc' = "spawn"
    /\ UNCHANGED << call, packets_count, packets_per_syscall, remaining_packets,
                    sendings_count, handles, result, worker, log, wire >>

\* One iteration of the loop of init_sockets in which every call succeeds:
\* the socket connected to the next receiver is pushed; after the last
\* receiver init_sockets returns Ok(sockets).
InitSocketOk ==
    /\ dpc = "init"
    /\ Len(sockets) < NumReceivers
    /\ sockets' = Append(sockets, receivers[Len(sockets) + 1])
    /\ dpc' = IF Len(sockets) + 1 = NumReceivers THEN "spawn" ELSE "init"
    /\ UNCHANGED << call, packets_count, packets_per_syscall, remaining_packets,
                    sendings_count, handles, result, worker, log, wire >>

\* Variant: the failure ends the loop but the sockets made so far are used.
InitSocketErrKeeps(step) ==
    /\ dpc = "init"
    /\ Len(sockets) < NumReceivers
    /\ step \in InitSteps
    /\ result' = [kind |-> "err", step |-> step, at |-> Len(sockets) + 1]
    /\ dpc' = "spawn"
    /\ UNCHANGED << call, packets_count, packets_per_syscall, remaining_packets,
                    sendings_count, sockets, handles, worker, log, wire >>

\* One iteration of the loop of init_sockets in which `step` fails: `?`
\* returns the error, the sockets made so far are dropped, and the `?` of
\* execute_testers returns it to the caller.
InitSocketErr(step) ==
    /\ dpc = "init"
    /\ Len(sockets) < NumReceivers
    /\ step \in InitSteps
    /\ sockets' = << >>
    /\ result' = [kind |-> "err", step |-> step, at |-> Len(sockets) + 1]
    /\ dpc' = "failed"
    /\ UNCHANGED << call, packets_count, packets_per_syscall, remaining_packets,
                    sendings_count, handles, worker, log, wire >>

\* Variant: every thread is given the first socket.
SpawnFirstSocket ==
    /\ dpc = "spawn"
    /\ sockets # << >>
    /\ LET i == Len(handles) + 1 IN
        /\ worker' = [worker EXCEPT ![i] =
                         [@ EXCEPT !.pc = "start",
                                   !.name = receivers[i],
                                   !.socket = receivers[1]]]
        /\ handles' = Append(handles, i)
    /\ sockets' = Tail(sockets)
    /\ UNCHANGED << call, packets_count, packets_per_syscall, dpc, remaining_packets,
                    sendings_count, result, log, wire >>

\* Variant: the sockets are taken from the back of the vector.
SpawnFromBack ==
    /\ dpc = "spawn"
    /\ sockets # << >>
    /\ LET i == Len(handles) + 1 IN
        /\ worker' = [worker EXCEPT ![i] =
                         [@ EXCEPT !.pc = "start",
                                   !.name = receivers[i],
                                   !.socket = sockets[Len(sockets)]]]
        /\ handles' = Append(handles, i)
    /\ sockets' = SubSeq(sockets, 1, Len(sockets) - 1)
    /\ UNCHANGED << call, packets_count, packets_per_syscall, dpc, remaining_packets,
                    sendings_count, result, log, wire >>

\* One step of into_iter().enumerate().map(..): the next socket is moved
\* into a thread named after the receiver of the same index.
Spawn ==
    /\ dpc = "spawn"
    /\ sockets # << >>
    /\ LET i == Len(handles) + 1 IN
        /\ worker' = [worker EXCEPT ![i] =
                         [@ EXCEPT !.pc = "start",
                                   !.name = receivers[i],
                                   !.socket = Head(sockets)]]
        /\ handles' = Append(handles, i)
    /\ sockets' = Tail(sockets)
    /\ UNCHANGED << call, packets_count, packets_per_syscall, dpc, remaining_packets,
                    sendings_count, result, log, wire >>

\* Variant: the failure is logged and the next socket is tried.
SpawnPanicSkips ==
    /\ dpc = "spawn"
    /\ sockets # << >>
    /\ result' = [kind |-> "panic", step |-> "spawn", at |-> Len(handles) + 1]
    /\ sockets' = Tail(sockets)
    /\ UNCHANGED << call, packets_count, packets_per_syscall, dpc, remaining_packets,
                    sendings_count, handles, worker, log, wire >>

\* Builder::spawn fails: expect() panics in the dispatcher; the handles
\* collected so far and the sockets not yet moved are dropped.
SpawnPanic ==
    /\ dpc = "spawn"
    /\ sockets # << >>
    /\ dpc' = "panicked"
    /\ result' = [kind |-> "panic", step |-> "spawn", at |-> Len(handles) + 1]
    /\ handles' = << >>
    /\ sockets' = << >>
    /\ UNCHANGED << call, packets_count, packets_per_syscall, remaining_packets,
                    sendings_count, worker, log, wire >>

\* Variant: the threads are joined before the handles are returned.
ReturnAfterJoin ==
    /\ dpc = "spawn"
    /\ sockets = << >>
    /\ \A i \in Workers : worker[i].pc = "done"
    /\ dpc' = "returned"
    /\ result' = [kind |-> "ok", step |-> "none", at |-> 0]
    /\ UNCHANGED << call, packets_count, packets_per_syscall, remaining_packets,
                    sendings_count, sockets, handles, worker, log, wire >>

\* collect() is complete: Ok(handles) is returned.
Return ==
    /\ dpc = "spawn"
    /\ sockets = << >>
    /\ dpc' = "returned"
    /\ result' = [kind |-> "ok", step |-> "none", at |-> 0]
    /\ UNCHANGED << call, packets_count, packets_per_syscall, remaining_packets,
                    sendings_count, sockets, handles, worker, log, wire >>

\* ------------------------------------------------------------------ worker
DispatcherVars == << packets_count, packets_per_syscall, dpc, remaining_packets,
                     sendings_count, sockets, handles, result, call >>

\* Variant: the range of the loop is inclusive.
loop_head_inclusive(iter, count) == IF iter <= count THEN "send" ELSE "remainder"

\* `for _ in 0..sendings_count`: the body runs while the index is in range,
\* then the remainder is sent.
loop_head(iter, count) == IF iter < count THEN "send" ELSE "remainder"

\* `tester.summary().packets_expected() - tester.summary().packets_sent()`
unsent_of(summary) == summary.packets_expected - summary.packets_sent

\* Variant: the branches are taken the wrong way round.
needs_resend_inverted(unsent) == unsent = 0

\* Variant: a shortfall of a single packet is let through.
needs_resend_gt1(unsent) == unsent > 1

\* `if unsent != 0 { resend_packets(..) } else { display_packets_sent(..) }`
needs_resend(unsent) == unsent # 0

\* Variant: the loop runs for one packet more.
resend_loop_done_long(resent, count) == resent > count

\* Variant: the loop stops one packet early.
resend_loop_done_short(resent, count) == resent + 1 >= count

\* `for _ in 0..count` of resend_packets is exhausted.
resend_loop_done(resent, count) == resent >= count

\* Variant: a failed single-packet send leaves the inner loop too.
after_send_once_err_break(resent) == resent + 1

\* The body of a failed single-packet send: the error is logged and the
\* inner `loop` runs again for the same packet.
after_send_once_err(resent) == resent

\* The body of a successful single-packet send: `break` leaves the inner
\* loop and the outer loop moves to the next packet.
after_send_once_ok(resent) == resent + 1

\* Variant: the loop is left when the allotted time has passed.
after_report_break(passed) == IF passed THEN "remainder" ELSE "sleep"

\* Variant: the loop is left at the first failed batch.
after_send_multiple_break(is_err) == IF is_err THEN "check" ELSE "report"

\* Where the loop body goes after display_summary and the time check: the
\* expiry only logs, then thread::sleep.
after_report(passed) == "sleep"

\* Variant: a failed batch skips the rest of the loop body.
after_send_multiple_continue(is_err) == IF is_err THEN "sleep" ELSE "report"

\* Where the loop body goes after send_multiple, failed or not.
after_send_multiple(is_err) == "report"

\* The first statements of the thread: the two portions and the summary.
Start(i) ==
    /\ worker[i].pc = "start"
    /\ worker' = [worker EXCEPT ![i] =
                     [@ EXCEPT !.ordinary = generate_portions(packets_per_syscall),
                               !.remaining = generate_portions(remaining_packets),
                               !.summary = TestSummaryDefault,
                               !.iter = 0,
                               !.pc = loop_head(0, sendings_count)]]
    /\ UNCHANGED << DispatcherVars, log, wire >>

\* tester.send_multiple(&mut ordinary) in the loop, of which `confirmed`
\* packets went out; an error is logged by send_multiple_error.
BatchSend(i, confirmed) ==
    /\ worker[i].pc = "send"
    /\ confirmed \in 0 .. Len(worker[i].ordinary)
    /\ LET is_err == send_multiple_is_err(worker[i].ordinary, confirmed) IN
        /\ worker' = [worker EXCEPT ![i] =
                         [@ EXCEPT !.summary = send_multiple(@, worker[i].ordinary, confirmed),
                                   !.pc = after_send_multiple(is_err)]]
        /\ log' = [log EXCEPT ![i] =
                      [@ EXCEPT !.loop_sends = @ + 1,
                                !.send_multiple_errors = @ + (IF is_err THEN 1 ELSE 0),
                                !.unconfirmed = @ + (Len(worker[i].ordinary) - confirmed),
                                !.sends_after_expiry = @ + (IF worker[i].expired THEN 1 ELSE 0)]]
    /\ wire' = [wire EXCEPT ![worker[i].socket] = @ + confirmed]
    /\ UNCHANGED DispatcherVars

\* display_summary, then the comparison of time_passed() with the test
\* duration (`passed`: its outcome, which stays true once true) and
\* display_expired_time.
Report(i, passed) ==
    /\ worker[i].pc = "report"
    /\ passed \in BOOLEAN
    /\ worker[i].expired => passed
    /\ worker' = [worker EXCEPT ![i] =
                     [@ EXCEPT !.expired = passed,
                               !.pc = after_report(passed)]]
    /\ log' = [log EXCEPT ![i] =
                  [@ EXCEPT !.summaries = @ + 1,
                            !.expired_notices = @ + (IF passed THEN 1 ELSE 0)]]
    /\ UNCHANGED << DispatcherVars, wire >>

\* thread::sleep(config.send_periodicity), then the next iteration.
Sleep(i) ==
    /\ worker[i].pc = "sleep"
    /\ worker' = [worker EXCEPT ![i] =
                     [@ EXCEPT !.iter = @ + 1,
                               !.pc = loop_head(worker[i].iter + 1, sendings_count)]]
    /\ UNCHANGED << DispatcherVars, log, wire >>

\* tester.send_multiple(&mut remaining) after the loop.
RemainderSend(i, confirmed) ==
    /\ worker[i].pc = "remainder"
    /\ confirmed \in 0 .. Len(worker[i].remaining)
    /\ LET is_err == send_multiple_is_err(worker[i].remaining, confirmed) IN
        /\ worker' = [worker EXCEPT ![i] =
                         [@ EXCEPT !.summary = send_multiple(@, worker[i].remaining, confirmed),
                                   !.pc = "check"]]
        /\ log' = [log EXCEPT ![i] =
                      [@ EXCEPT !.remainder_sends = @ + 1,
                                !.send_multiple_errors = @ + (IF is_err THEN 1 ELSE 0),
                                !.unconfirmed = @ + (Len(worker[i].remaining) - confirmed),
                                !.sends_after_expiry = @ + (IF worker[i].expired THEN 1 ELSE 0)]]
    /\ wire' = [wire EXCEPT ![worker[i].socket] = @ + confirmed]
    /\ UNCHANGED DispatcherVars

\* Variant: display_packets_sent is called on both branches.
ShortfallCheckAlwaysReports(i) ==
    /\ worker[i].pc = "check"
    /\ LET unsent == unsent_of(worker[i].summary) IN
        IF needs_resend(unsent)
        THEN /\ worker' = [worker EXCEPT ![i] =
                              [@ EXCEPT !.unsent = unsent, !.resent = 0, !.pc = "resend"]]
             /\ log' = [log EXCEPT ![i] =
                           [@ EXCEPT !.resend_starts = @ + 1,
                                     !.packets_sent_reports = @ + 1]]
        ELSE /\ worker' = [worker EXCEPT ![i] =
                              [@ EXCEPT !.unsent = unsent, !.pc = "done"]]
             /\ log' = [log EXCEPT ![i] = [@ EXCEPT !.packets_sent_reports = @ + 1]]
    /\ UNCHANGED << call, packets_count, packets_per_syscall, dpc, remaining_packets,
                    sendings_count, sockets, handles, result, wire >>

\* `let unsent = ..` and the branch on it: either resend_packets is entered
\* (its first info!) or display_packets_sent ends the thread.
ShortfallCheck(i) ==
    /\ worker[i].pc = "check"
    /\ LET unsent == unsent_of(worker[i].summary) IN
        IF needs_resend(unsent)
        THEN /\ worker' = [worker EXCEPT ![i] =
                              [@ EXCEPT !.unsent = unsent, !.resent = 0, !.pc = "resend"]]
             /\ log' = [log EXCEPT ![i] = [@ EXCEPT !.resend_starts = @ + 1]]
        ELSE /\ worker' = [worker EXCEPT ![i] =
                              [@ EXCEPT !.unsent = unsent, !.pc = "done"]]
             /\ log' = [log EXCEPT ![i] = [@ EXCEPT !.packets_sent_reports = @ + 1]]
    /\ UNCHANGED << DispatcherVars, wire >>

\* tester.send_once(..) in resend_packets succeeds.
SendOnceOk(i) ==
    /\ worker[i].pc = "resend"
    /\ ~ resend_loop_done(worker[i].resent, worker[i].unsent)
    /\ worker' = [worker EXCEPT ![i] =
                     [@ EXCEPT !.summary = send_once(@),
                               !.resent = after_send_once_ok(@)]]
    /\ log' = [log EXCEPT ![i] = [@ EXCEPT !.once_ok = @ + 1]]
    /\ wire' = [wire EXCEPT ![worker[i].socket] = @ + 1]
    /\ UNCHANGED DispatcherVars

\* Variant: a failed single-packet send ends resend_packets.
SendOnceErrGivesUp(i) ==
    /\ worker[i].pc = "resend"
    /\ worker[i].resent < worker[i].unsent
    /\ worker' = [worker EXCEPT ![i] = [@ EXCEPT !.pc = "done"]]
    /\ log' = [log EXCEPT ![i] =
                  [@ EXCEPT !.once_err = IF @ < MaxRetries THEN @ + 1 ELSE @,
                            !.once_err_odd = ~ @,
                            !.resend_ends = @ + 1]]
    /\ UNCHANGED << call, packets_count, packets_per_syscall, dpc, remaining_packets,
                    sendings_count, sockets, handles, result, wire >>

\* tester.send_once(..) in resend_packets fails: error! and retry.
SendOnceErr(i) ==
    /\ worker[i].pc = "resend"
    /\ ~ resend_loop_done(worker[i].resent, worker[i].unsent)
    /\ worker' = [worker EXCEPT ![i] =
                     [@ EXCEPT !.resent = after_send_once_err(@)]]
    /\ log' = [log EXCEPT ![i] =
                  [@ EXCEPT !.once_err = IF @ < MaxRetries THEN @ + 1 ELSE @,
                            !.once_err_odd = ~ @]]
    /\ UNCHANGED << DispatcherVars, wire >>

\* The last info! of resend_packets; the thread ends.
ResendEnd(i) ==
    /\ worker[i].pc = "resend"
    /\ resend_loop_done(worker[i].resent, worker[i].unsent)
    /\ worker' = [worker EXCEPT ![i] = [@ EXCEPT !.pc = "done"]]
    /\ log' = [log EXCEPT ![i] = [@ EXCEPT !.resend_ends = @ + 1]]
    /\ UNCHANGED << DispatcherVars, wire >>

WorkerStep(i) ==
    \/ Start(i)
    \/ \E confirmed \in 0 .. MaxBatch + 1 : BatchSend(i, confirmed)
    \/ \E passed \in BOOLEAN : Report(i, passed)
    \/ Sleep(i)
    \/ \E confirmed \in 0 .. MaxBatch + 1 : RemainderSend(i, confirmed)
    \/ ShortfallCheck(i)
    \/ SendOnceOk(i)
    \/ SendOnceErr(i)
    \/ ResendEnd(i)

Next ==
    \/ Wait
    \/ Plan
    \/ InitSocketOk
    \/ \E step \in InitSteps : InitSocketErr(step)
    \/ Spawn
    \/ SpawnPanic
    \/ Return
    \/ \E i \in Workers : WorkerStep(i)

Spec == Init /\ [][Next]_vars

\* The threads are scheduled by the operating system: a worker that can take
\* a step eventually takes one; and send failures are transient: a
\* single-packet send that keeps being attempted eventually succeeds.
LiveInit ==
    /\ Init
    /\ packets_count <= MaxLivePackets
    /\ packets_per_syscall <= MaxLiveBatch
    /\ packets_per_syscall >= MaxLiveBatch - 1

LiveSpec ==
    /\ LiveInit
    /\ [][Next]_vars
    /\ \A i \in Workers : WF_vars(WorkerStep(i)) /\ WF_vars(SendOnceOk(i))

\* The batch planner alone, on a wider range of inputs.
PlanInputs ==
    ((1 .. MaxPlanInput) \X (1 .. MaxPlanInput))
        \cup { << 10, 3 >>, << 65000, 65000 >>, << 5, 7 >> }

PlanInit ==
    /\ \E input \in PlanInputs :
          /\ packets_count = input[1]
          /\ packets_per_syscall = input[2]
    /\ dpc = "plan"
    /\ remaining_packets = 0
    /\ sendings_count = 0
    /\ sockets = << >>
    /\ handles = << >>
    /\ result = NoResult
    /\ worker = [i \in Workers |-> WorkerInit]
    /\ log = [i \in Workers |-> LogInit]
    /\ wire = [a \in Addresses |-> 0]
    /\ call = NoCall

PlanNext == Plan

PlanSpec == PlanInit /\ [][PlanNext]_vars

\* ------------------------------------------------------------ the helpers
\* The helpers that build the packet and parse the numeric arguments are
\* functions of their argument alone; each is called once on an argument
\* drawn from the sets below.
EngineVars == << packets_count, packets_per_syscall, dpc, remaining_packets,
                 sendings_count, sockets, handles, result, worker, log, wire >>

Pending == [tag |-> "Pending", value |-> << >>, error |-> "none"]

Ok(value) == [tag |-> "Ok", value |-> value, error |-> "none"]

Err(error) == [tag |-> "Err", value |-> << >>, error |-> error]

\* The byte values the files and the random generator are run with.
Bytes == {0, 255}

SeqsUpTo(S, n) == UNION {[1 .. k -> S] : k \in 0 .. n}

\* fs::read(path): the whole content of the file, or the I/O error.
fs_read(file) ==
    IF file.readable THEN Ok(file.data) ELSE Err("io")

\* Variant: the length of the content is not checked.
read_packet_unchecked(file) ==
    LET content == fs_read(file)
    IN  IF content.tag = "Err" THEN Err("ReadFailed") ELSE Ok(content.value)

read_packet(file) ==
    LET content == fs_read(file)
    IN  IF content.tag = "Err" THEN Err("ReadFailed")
        ELSE IF Len(content.value) = 0 THEN Err("ZeroSize")
        ELSE Ok(content.value)

\* random_packet(length): a buffer of `length` slots (with_capacity and
\* set_len), every slot of which fill_bytes overwrites with the next byte of
\* the generator's stream.
random_packet(length, stream) ==
    LET buffer == [j \in 1 .. length |-> 0]
    IN  [j \in 1 .. Len(buffer) |-> stream[j]]

construct_packet(args_config) ==
    IF args_config.has_file
    THEN read_packet([readable |-> args_config.readable,
                      data |-> args_config.data])
    ELSE Ok(random_packet(args_config.length, args_config.stream))

\* A usize is held as its decimal digits, most significant first and
\* without leading zeros, so that the 64-bit range is kept exactly: zero is
\* the empty sequence.
Digits == << "0", "1", "2", "3", "4", "5", "6", "7", "8", "9" >>

IsDigit(c) == \E d \in 1 .. Len(Digits) : Digits[d] = c

to_digit(c) == (CHOOSE d \in 1 .. Len(Digits) : Digits[d] = c) - 1

\* usize::MAX = 18446744073709551615
UsizeMax == << 1, 8, 4, 4, 6, 7, 4, 4, 0, 7, 3, 7, 0, 9, 5, 5, 1, 6, 1, 5 >>

\* a > b, for two numbers held as digits.
Exceeds(a, b) ==
    \/ Len(a) > Len(b)
    \/ /\ Len(a) = Len(b)
       /\ \E k \in 1 .. Len(a) :
             /\ a[k] > b[k]
             /\ \A j \in 1 .. k - 1 : a[j] = b[j]

\* result * 10 + x
mul10_add(number, x) ==
    IF number = << >> /\ x = 0 THEN << >> ELSE Append(number, x)

\* The digit loop of usize::from_str: every character must be a digit, and
\* the checked multiplication and addition must stay within usize.
RECURSIVE parse_digits(_, _)
parse_digits(number, rest) ==
    IF rest = << >> THEN Ok(number)
    ELSE IF ~IsDigit(Head(rest)) THEN Err("InvalidDigit")
    ELSE LET next == mul10_add(number, to_digit(Head(rest)))
         IN  IF Exceeds(next, UsizeMax) THEN Err("PosOverflow")
             ELSE parse_digits(next, Tail(rest))

\* str::parse::<usize>(): an optional leading "+", then at least one digit.
usize_from_str(src) ==
    IF src = << >> THEN Err("Empty")
    ELSE LET digits == IF Head(src) = "+" THEN Tail(src) ELSE src
         IN  IF digits = << >> THEN Err("Empty")
             ELSE parse_digits(<< >>, digits)

\* Variant: the parsed number is wrapped without the zero check.
parse_non_zero_usize_unchecked(number) ==
    LET parsed == usize_from_str(number)
    IN  IF parsed.tag = "Err" THEN Err("InvalidFormat") ELSE Ok(parsed.value)

parse_non_zero_usize(number) ==
    LET parsed == usize_from_str(number)
    IN  IF parsed.tag = "Err" THEN Err("InvalidFormat")
        ELSE IF parsed.value = << >> THEN Err("ZeroValue")
        ELSE Ok(parsed.value)

\* The packet files: one that cannot be read, and the readable ones.
Files ==
    {[readable |-> FALSE, data |-> << >>]}
        \cup {[readable |-> TRUE, data |-> d] : d \in SeqsUpTo(Bytes, MaxFileLen)}

Streams == [1 .. MaxPacketLen -> Bytes]

PacketArgs ==
    {[has_file |-> TRUE, readable |-> f.readable, data |-> f.data,
      length |-> n, stream |-> s] :
        f \in Files, n \in 1 .. MaxPacketLen, s \in Streams}
        \cup {[has_file |-> FALSE, readable |-> FALSE, data |-> << >>,
               length |-> n, stream |-> s] :
                 n \in 1 .. MaxPacketLen, s \in Streams}

TextChars == {"0", "1", "9", "+", "-", " ", "a"}

RECURSIVE Repeat(_, _)
Repeat(text, times) ==
    IF times = 0 THEN << >> ELSE text \o Repeat(text, times - 1)

\* The arguments of the tests of config.rs, the default of packets_count
\* and its successor, and every short text over TextChars.
Texts ==
    SeqsUpTo(TextChars, MaxTextLen)
        \cup { << "3" >>,
               << "2", "6", "6", "5", "5" >>,
               << "+", "7", "5" >>,
               << "0", "0", "7" >>,
               << "+", "0", "0" >>,
               << " ", " ", " " >>,
               << "a", "b", "c", "5", "6", "5", "3", "o", "d", "r", "!" >>,
               << "6", "4", "8", "5", "&", "0", "2", "h", "d", "e" >>,
               << "-", "5", "6", "5", "6", "4", "2" >>,
               Repeat(<< "2", "1", "7", "8" >>, 50),
               << "1", "8", "4", "4", "6", "7", "4", "4", "0", "7",
                  "3", "7", "0", "9", "5", "5", "1", "6", "1", "5" >>,
               << "1", "8", "4", "4", "6", "7", "4", "4", "0", "7",
                  "3", "7", "0", "9", "5", "5", "1", "6", "1", "6" >>,
               << "0", "1", "8", "4", "4", "6", "7", "4", "4", "0", "7",
                  "3", "7", "0", "9", "5", "5", "1", "6", "1", "5" >>,
               << "9", "9", "9", "9", "9", "9", "9", "9", "9", "9",
                  "9", "9", "9", "9", "9", "9", "9", "9", "9", "9" >> }

HelperCalls ==
    {[fn |-> "read_packet", arg |-> a, ret |-> Pending] :
        a \in {b \in PacketArgs : b.has_file}}
        \cup {[fn |-> "random_packet", arg |-> a, ret |-> Pending] :
                a \in {b \in PacketArgs : ~b.has_file}}
        \cup {[fn |-> "construct_packet", arg |-> a, ret |-> Pending] :
                a \in PacketArgs}
        \cup {[fn |-> "parse_non_zero_usize",
               arg |-> [has_file |-> FALSE, readable |-> FALSE, data |-> t,
                        length |-> 0, stream |-> << >>],
               ret |-> Pending] : t \in Texts}

HelperInit ==
    /\ call \in HelperCalls
    /\ packets_count = 1
    /\ packets_per_syscall = 1
    /\ dpc = "wait"
    /\ remaining_packets = 0
    /\ sendings_count = 0
    /\ sockets = << >>
    /\ handles = << >>
    /\ result = NoResult
    /\ worker = [i \in Workers |-> WorkerInit]
    /\ log = [i \in Workers |-> LogInit]
    /\ wire = [a \in Addresses |-> 0]

Called(fn) == call.fn = fn /\ call.ret = Pending

ReadPacket ==
    /\ Called("read_packet")
    /\ call' = [call EXCEPT !.ret = read_packet(call.arg)]
    /\ UNCHANGED EngineVars

RandomPacket ==
    /\ Called("random_packet")
    /\ call' = [call EXCEPT
                  !.ret = Ok(random_packet(call.arg.length, call.arg.stream))]
    /\ UNCHANGED EngineVars

ConstructPacket ==
    /\ Called("construct_packet")
    /\ call' = [call EXCEPT !.ret = construct_packet(call.arg)]
    /\ UNCHANGED EngineVars

ParseNonZeroUsize ==
    /\ Called("parse_non_zero_usize")
    /\ call' = [call EXCEPT !.ret = parse_non_zero_usize(call.arg.data)]
    /\ UNCHANGED EngineVars

HelperNext ==
    \/ ReadPacket
    \/ RandomPacket
    \/ ConstructPacket
    \/ ParseNonZeroUsize

HelperSpec == HelperInit /\ [][HelperNext]_vars


\* ------------------------------------------------------------- properties
Done(i) == worker[i].pc = "done"

InLoop(i) == worker[i].pc \in {"send", "report", "sleep"}

AfterCheck(i) == worker[i].pc \in {"resend", "done"}

AfterLoop(i) == worker[i].pc \in {"check", "resend", "done"}

\* C1: whenever a worker is done, whatever batched and single sends failed
\* on the way, its summary has packets_sent = packets_expected.
C1_DoneSentEqualsExpected ==
    \A i \in Workers :
        Done(i) => worker[i].summary.packets_sent = worker[i].summary.packets_expected

\* A worker is done after a failed batched send and a failed single send.
C1_Witness ==
    \E i \in Workers :
        /\ Done(i)
        /\ log[i].send_multiple_errors >= 1
        /\ log[i].once_err >= 1
        /\ log[i].once_ok >= 1

\* C2: when a worker is done, the packets confirmed sent to its destination
\* are as many as the requested packets_count, and so is packets_expected.
C2_DoneSentEqualsRequested ==
    \A i \in Workers :
        Done(i) =>
            /\ worker[i].summary.packets_expected = packets_count
            /\ worker[i].summary.packets_sent = packets_count
            /\ wire[receivers[i]] = packets_count

\* A worker is done with whole batches and a remainder, one of them failed.
C2_Witness ==
    \E i \in Workers :
        /\ Done(i)
        /\ sendings_count >= 1
        /\ remaining_packets >= 1
        /\ log[i].send_multiple_errors >= 1

\* C3: when the initialization of a socket fails, execute_testers returns
\* the error, no worker is spawned and no packet is sent to any destination.
C3_InitFailureSpawnsNothing ==
    /\ dpc = "failed" <=> result.kind = "err"
    /\ result.kind = "err" =>
          /\ handles = << >>
          /\ \A i \in Workers :
                /\ worker[i].pc = "unspawned"
                /\ worker[i].socket = NoSocket
                /\ log[i] = LogInit
          /\ \A a \in Addresses : wire[a] = 0

\* The socket of the second receiver fails at its last step, after the
\* socket of the first receiver was made.
C3_Witness ==
    /\ result.kind = "err"
    /\ result.at = 2
    /\ result.step = "set_write_timeout"

\* C4: the plan has remaining_packets = packets_count mod packets_per_syscall
\* and sendings_count = (packets_count - remaining_packets) / packets_per_syscall
\* without underflow, so that sendings_count * packets_per_syscall +
\* remaining_packets = packets_count and remaining_packets < packets_per_syscall;
\* (10,3) gives (3,1), (65000,65000) gives (1,0), (5,7) gives (0,5).
C4_BatchPlan ==
    dpc = "init" =>
        /\ remaining_packets = packets_count % packets_per_syscall
        /\ packets_count - remaining_packets >= 0
        /\ sendings_count * packets_per_syscall = packets_count - remaining_packets
        /\ sendings_count * packets_per_syscall + remaining_packets = packets_count
        /\ remaining_packets >= 0
        /\ remaining_packets < packets_per_syscall
        /\ sendings_count >= 0
        /\ (packets_count = 10 /\ packets_per_syscall = 3) =>
              (sendings_count = 3 /\ remaining_packets = 1)
        /\ (packets_count = 65000 /\ packets_per_syscall = 65000) =>
              (sendings_count = 1 /\ remaining_packets = 0)
        /\ (packets_count = 5 /\ packets_per_syscall = 7) =>
              (sendings_count = 0 /\ remaining_packets = 5)

\* The plan of 5 packets in batches of 7 has been computed.
C4_Witness ==
    /\ dpc = "init"
    /\ packets_count = 5
    /\ packets_per_syscall = 7
    /\ sendings_count = 0
    /\ remaining_packets = 5

\* C5: if no batched send of the loop nor the remainder send failed, the
\* shortfall computed at the check is 0 and the worker makes no
\* single-packet send: it reports that all packets were sent and is done.
C5_NoFailureNoResend ==
    \A i \in Workers :
        log[i].send_multiple_errors = 0 =>
            /\ worker[i].pc = "check" => unsent_of(worker[i].summary) = 0
            /\ AfterCheck(i) =>
                  /\ worker[i].unsent = 0
                  /\ Done(i)
                  /\ log[i].resend_starts = 0
                  /\ log[i].once_ok = 0
                  /\ log[i].once_err = 0
                  /\ log[i].packets_sent_reports = 1

\* A worker is done after a batch and a remainder that both succeeded.
C5_Witness ==
    \E i \in Workers :
        /\ Done(i)
        /\ log[i].send_multiple_errors = 0
        /\ log[i].loop_sends >= 1
        /\ Len(worker[i].remaining) >= 1

\* C6: a failed batched send does not stop the worker: whatever sends
\* failed, the loop submits sendings_count batched sends, then the
\* remainder send is made and the shortfall is checked.
C6_FailedBatchDoesNotStop ==
    \A i \in Workers :
        /\ InLoop(i) =>
              /\ log[i].loop_sends <= sendings_count
              /\ log[i].remainder_sends = 0
        /\ worker[i].pc = "remainder" =>
              /\ log[i].loop_sends = sendings_count
              /\ log[i].remainder_sends = 0
        /\ AfterLoop(i) =>
              /\ log[i].loop_sends = sendings_count
              /\ log[i].remainder_sends = 1

\* A worker is at the check after two or more batched sends that all failed
\* completely.
C6_Witness ==
    \E i \in Workers :
        /\ worker[i].pc = "check"
        /\ log[i].loop_sends >= 2
        /\ log[i].send_multiple_errors = log[i].loop_sends
        /\ log[i].unconfirmed = packets_count

\* C7: the packets that batched sends attempted and did not confirm are the
\* shortfall: at the check unsent equals their number, it is positive after
\* any failed batched send, and the worker then enters the resend phase
\* instead of reporting that all packets were sent.
C7_FailureIsShortfall ==
    \A i \in Workers :
        /\ worker[i].pc = "check" =>
              /\ unsent_of(worker[i].summary) = log[i].unconfirmed
              /\ log[i].send_multiple_errors > 0 => unsent_of(worker[i].summary) > 0
        /\ (AfterCheck(i) /\ log[i].unconfirmed > 0) =>
              /\ worker[i].unsent = log[i].unconfirmed
              /\ log[i].resend_starts = 1
              /\ log[i].packets_sent_reports = 0

\* A worker resends after two batched sends of which one went out in part.
C7_Witness ==
    \E i \in Workers :
        /\ worker[i].pc = "resend"
        /\ log[i].send_multiple_errors >= 2
        /\ worker[i].unsent >= 2
        /\ worker[i].summary.packets_sent >= 1
        /\ worker[i].resent = 0

\* C8: in the resend phase the worker sends one missing packet at a time:
\* unsent is not recomputed, a failed attempt stays on the same packet and
\* can always be retried, the next packet is taken only after a success,
\* and the phase ends after exactly unsent successful single sends.
C8_ResendOneAtATime ==
    /\ [](\A i \in Workers :
            worker[i].pc = "resend" =>
                /\ worker[i].resent = log[i].once_ok
                /\ worker[i].resent <= worker[i].unsent
                /\ worker[i].resent < worker[i].unsent => ENABLED SendOnceErr(i))
    /\ [][\A i \in Workers :
            worker[i].pc = "resend" =>
                /\ worker'[i].unsent = worker[i].unsent
                /\ worker'[i].resent \in {worker[i].resent, worker[i].resent + 1}
                /\ (worker'[i].resent = worker[i].resent + 1)
                       <=> (log'[i].once_ok = log[i].once_ok + 1)
                /\ log'[i].once_err_odd # log[i].once_err_odd =>
                       /\ worker'[i].resent = worker[i].resent
                       /\ worker'[i].pc = "resend"
                /\ worker'[i].pc = "done" =>
                       /\ log[i].once_ok = worker[i].unsent
                       /\ log'[i].resend_ends = 1]_vars

\* A worker is done after resending two packets or more, one of them at
\* the second attempt.
C8_Witness ==
    \E i \in Workers :
        /\ Done(i)
        /\ worker[i].unsent >= 2
        /\ log[i].once_ok = worker[i].unsent
        /\ log[i].once_err >= 1

C10_SpawnedWorkerFinishes ==
    \A i \in Workers :
        (worker[i].pc = "start") ~>
            (Done(i) /\ unsent_of(worker[i].summary) = 0)

\* A worker is done after a shortfall and a failed single-packet send.
C10_Witness ==
    \E i \in Workers :
        /\ Done(i)
        /\ worker[i].unsent >= 1
        /\ log[i].once_err >= 1
        /\ unsent_of(worker[i].summary) = 0

Spawned(i) == worker[i].pc # "unspawned"

\* C11: two distinct workers never touch each other's summary, position or
\* socket: the sockets of two spawned workers differ and are no longer in
\* the dispatcher's vector, and a step that changes one worker or its log
\* leaves every other worker, its log and the packets on the wire to its
\* destination unchanged.
C11_WorkersAreIsolated ==
    /\ [](\A i \in Workers :
            Spawned(i) =>
                /\ \A j \in Workers \ {i} :
                      Spawned(j) => worker[i].socket # worker[j].socket
                /\ \A k \in 1 .. Len(sockets) : sockets[k] # worker[i].socket)
    /\ [][\A i \in Workers :
            (worker'[i] # worker[i] \/ log'[i] # log[i]) =>
                \A j \in Workers \ {i} :
                    /\ worker'[j] = worker[j]
                    /\ log'[j] = log[j]
                    /\ wire'[receivers[j]] = wire[receivers[j]]]_vars

\* Both workers run at once, at different positions, each with packets sent
\* through its own socket.
C11_Witness ==
    /\ worker[1].pc = "resend"
    /\ worker[2].pc = "report"
    /\ worker[1].summary.packets_sent >= 1
    /\ worker[2].summary.packets_sent >= 1
    /\ worker[1].summary # worker[2].summary
    /\ worker[1].socket # worker[2].socket

\* C12: the dispatcher's steps are ordered: no socket exists before the
\* initial wait and the plan are over, and no worker is spawned and no
\* packet sent before a socket was initialized for every receiver.
C12_DispatcherOrder ==
    /\ dpc \in {"wait", "plan"} => sockets = << >>
    /\ dpc \in {"wait", "plan", "init", "failed"} =>
          /\ handles = << >>
          /\ \A i \in Workers : ~ Spawned(i) /\ log[i] = LogInit
          /\ \A a \in Addresses : wire[a] = 0
    /\ dpc = "spawn" => Len(sockets) + Len(handles) = NumReceivers
    /\ (\E i \in Workers : Spawned(i)) => dpc \in {"spawn", "returned", "panicked"}

\* The first worker has sent packets while the second is not spawned yet.
C12_Witness ==
    /\ dpc = "spawn"
    /\ Len(handles) = 1
    /\ Len(sockets) = 1
    /\ wire[receivers[1]] >= 1
    /\ ~ Spawned(2)

\* C13: when execute_testers returns Ok there is one worker and one handle
\* for each receiver, and the i-th worker holds the socket connected to the
\* i-th receiver and is named after it.
C13_OneWorkerPerReceiver ==
    /\ result.kind = "ok" =>
          /\ Len(handles) = NumReceivers
          /\ \A i \in Workers : handles[i] = i /\ Spawned(i)
    /\ \A i \in Workers :
          Spawned(i) =>
              /\ worker[i].socket = receivers[i]
              /\ worker[i].name = receivers[i]
              /\ i <= Len(handles) \/ result.kind = "panic"

\* execute_testers has returned Ok with both workers spawned.
C13_Witness ==
    /\ result.kind = "ok"
    /\ Len(handles) = 2
    /\ worker[2].socket = receivers[2]
    /\ worker[2].name = receivers[2]
    /\ wire[receivers[2]] >= 1

\* C14: the dispatcher blocks only in the initial wait and the socket
\* initialization: while spawning, its next step never waits for a worker,
\* and once every socket is moved into a thread it can return the handles
\* whatever the workers are doing, also when none of them is done.
C14_ReturnDoesNotWait ==
    /\ (dpc = "spawn" /\ sockets # << >>) => ENABLED Spawn
    /\ (dpc = "spawn" /\ sockets = << >>) => ENABLED Return
    /\ dpc = "returned" =>
          /\ result.kind = "ok"
          /\ Len(handles) = NumReceivers

\* execute_testers has returned while one worker has not run yet and the
\* other is retrying a single-packet send.
C14_Witness ==
    /\ dpc = "returned"
    /\ worker[1].pc = "resend"
    /\ log[1].once_err >= 1
    /\ log[1].once_ok = 0
    /\ worker[2].pc = "start"

\* C15: when the thread of a receiver cannot be spawned the failure is not
\* recovered: the dispatcher panics and never returns handles, and neither
\* that receiver nor the ones after it get a worker or a packet.
C15_SpawnFailureIsFatal ==
    /\ result.kind = "panic" <=> dpc = "panicked"
    /\ result.kind = "panic" =>
          /\ handles = << >>
          /\ sockets = << >>
          /\ \A i \in Workers :
                i >= result.at =>
                    /\ ~ Spawned(i)
                    /\ log[i] = LogInit
                    /\ wire[receivers[i]] = 0

\* The thread of the second receiver could not be spawned; the first worker
\* ran to its end.
C15_Witness ==
    /\ result.kind = "panic"
    /\ result.at = 2
    /\ Done(1)
    /\ wire[receivers[1]] >= 1
    /\ wire[receivers[2]] = 0

\* C16: as long as no single-packet send has succeeded, a worker that found
\* a shortfall stays in the resend phase on its first missing packet: it is
\* not done, has not reported the end of the resend and has skipped nothing,
\* however often the send has failed.
C16_UnreachableSpinsForever ==
    \A i \in Workers :
        (log[i].resend_starts >= 1 /\ log[i].once_ok = 0) =>
            /\ worker[i].pc = "resend"
            /\ worker[i].unsent > 0
            /\ worker[i].resent = 0
            /\ log[i].resend_ends = 0
            /\ unsent_of(worker[i].summary) = worker[i].unsent
            /\ ENABLED SendOnceErr(i)

\* A worker is still resending its first packet after two failed attempts
\* or more.
C16_Witness ==
    \E i \in Workers :
        /\ worker[i].pc = "resend"
        /\ log[i].once_ok = 0
        /\ log[i].once_err >= 1
        /\ log[i].once_err_odd = FALSE

\* The batched sends a worker has made with at least one portion.
SendsWithPackets(i) ==
    (IF Len(worker[i].ordinary) > 0 THEN log[i].loop_sends ELSE 0)
        + (IF Len(worker[i].remaining) > 0 THEN log[i].remainder_sends ELSE 0)

\* C17 as stated: after the loop a worker has made sendings_count batched
\* sends, and one more only if remaining_packets > 0.
C17_RemainderSendOnlyIfPositive ==
    \A i \in Workers :
        AfterLoop(i) =>
            log[i].loop_sends + log[i].remainder_sends
                = sendings_count + (IF remaining_packets > 0 THEN 1 ELSE 0)

\* C17 as amended: the remainder send is always made, with
\* remaining_packets portions: after the loop a worker has made
\* sendings_count + 1 batched sends, of which sendings_count
\* (+ 1 if remaining_packets > 0) had a packet to send.
C17_RemainderSendAlways ==
    \A i \in Workers :
        /\ Spawned(i) /\ worker[i].pc # "start" =>
              Len(worker[i].remaining) = remaining_packets
        /\ AfterLoop(i) =>
              /\ log[i].loop_sends + log[i].remainder_sends = sendings_count + 1
              /\ log[i].remainder_sends = 1
              /\ SendsWithPackets(i)
                    = sendings_count + (IF remaining_packets > 0 THEN 1 ELSE 0)

\* A worker is past its remainder send although the remainder is 0.
C17_Witness ==
    \E i \in Workers :
        /\ AfterLoop(i)
        /\ remaining_packets = 0
        /\ worker[i].remaining = << >>
        /\ log[i].remainder_sends = 1
        /\ log[i].loop_sends = sendings_count

PhaseRank(pc) ==
    CASE pc = "unspawned" -> 0
      [] pc = "start" -> 1
      [] pc \in {"send", "report", "sleep"} -> 2
      [] pc = "remainder" -> 3
      [] pc = "check" -> 4
      [] pc = "resend" -> 5
      [] pc = "done" -> 6

\* C18: a worker goes through batch sending, the remainder send, the
\* shortfall check, the resend phase (if any) and done in this order and
\* never back; each of its steps makes at most one send; no single-packet
\* send is made before the remainder send and no batched send after the
\* check.
C18_PhaseOrder ==
    /\ [](\A i \in Workers :
            /\ (log[i].once_ok + log[i].once_err > 0) =>
                  /\ log[i].remainder_sends = 1
                  /\ AfterCheck(i)
            /\ ~ AfterCheck(i) => log[i].resend_starts = 0)
    /\ [][\A i \in Workers :
            /\ PhaseRank(worker'[i].pc) >= PhaseRank(worker[i].pc)
            /\ worker'[i].pc = "remainder" => PhaseRank(worker[i].pc) \in {1, 2, 3}
            /\ worker'[i].pc = "check" => worker[i].pc \in {"remainder", "check"}
            /\ worker'[i].pc = "resend" => worker[i].pc \in {"check", "resend"}
            /\ worker'[i].pc = "done" => worker[i].pc \in {"check", "resend", "done"}
            /\ AfterLoop(i) =>
                  /\ log'[i].loop_sends = log[i].loop_sends
                  /\ log'[i].remainder_sends = log[i].remainder_sends
            /\ (log'[i].loop_sends - log[i].loop_sends)
                  + (log'[i].remainder_sends - log[i].remainder_sends)
                  + (log'[i].once_ok - log[i].once_ok)
                  + (IF log'[i].once_err_odd # log[i].once_err_odd THEN 1 ELSE 0)
                  \in {0, 1}]_vars

\* A worker is done after batches, a remainder with packets and a resend.
C18_Witness ==
    \E i \in Workers :
        /\ Done(i)
        /\ log[i].loop_sends >= 1
        /\ Len(worker[i].remaining) >= 1
        /\ log[i].once_ok >= 1
        /\ log[i].resend_ends = 1

\* C19: the check has exactly one of two outcomes.  With unsent = 0 the
\* worker reports that all packets were sent and never reports a resend.
\* With unsent > 0 it reports the start of the resend, reports its end only
\* when all unsent packets were resent, and never reports that all packets
\* were sent.
C19_OneOutcomeAtCheck ==
    \A i \in Workers :
        /\ ~ AfterCheck(i) =>
              /\ log[i].packets_sent_reports = 0
              /\ log[i].resend_starts = 0
              /\ log[i].resend_ends = 0
        /\ AfterCheck(i) =>
              /\ worker[i].unsent >= 0
              /\ worker[i].unsent = 0 =>
                    /\ Done(i)
                    /\ log[i].packets_sent_reports = 1
                    /\ log[i].resend_starts = 0
                    /\ log[i].resend_ends = 0
              /\ worker[i].unsent > 0 =>
                    /\ log[i].packets_sent_reports = 0
                    /\ log[i].resend_starts = 1
                    /\ log[i].resend_ends = (IF Done(i) THEN 1 ELSE 0)
                    /\ log[i].resend_ends = 1 => log[i].once_ok = worker[i].unsent

\* Both outcomes at once: one worker is done without a shortfall, the other
\* after a resend.
C19_Witness ==
    /\ Done(1)
    /\ worker[1].unsent = 0
    /\ log[1].packets_sent_reports = 1
    /\ Done(2)
    /\ worker[2].unsent > 0
    /\ log[2].resend_ends = 1

\* C20: a progress report follows every batched send of the loop, failed
\* or not, before the next one: the reports are as many as the batches sent
\* so far, less the one whose report is due, and sendings_count in all.
C20_ReportAfterEveryBatch ==
    \A i \in Workers :
        /\ worker[i].pc \in {"unspawned", "start"} => log[i].summaries = 0
        /\ worker[i].pc = "send" =>
              /\ log[i].summaries = log[i].loop_sends
              /\ log[i].summaries = worker[i].iter
        /\ worker[i].pc = "report" => log[i].summaries + 1 = log[i].loop_sends
        /\ worker[i].pc = "sleep" => log[i].summaries = log[i].loop_sends
        /\ (worker[i].pc = "remainder" \/ AfterLoop(i)) =>
              log[i].summaries = sendings_count

\* A worker is past a loop of two batches or more, all failed, with as
\* many reports.
C20_Witness ==
    \E i \in Workers :
        /\ AfterLoop(i)
        /\ sendings_count >= 2
        /\ log[i].summaries = sendings_count
        /\ log[i].send_multiple_errors >= sendings_count

\* A helper has been called and has returned.
Returned(fn) == call.fn = fn /\ call.ret # Pending

\* What read_packet owes for the file it was given.
ReadPacketOutcome(file, ret) ==
    /\ ~file.readable => ret = Err("ReadFailed")
    /\ file.readable /\ Len(file.data) = 0 => ret = Err("ZeroSize")
    /\ file.readable /\ Len(file.data) > 0 =>
          ret.tag = "Ok" /\ ret.value = file.data

\* What random_packet owes for the length it was given.
RandomPacketOutcome(length, ret) ==
    /\ ret.tag = "Ok"
    /\ Len(ret.value) = length
    /\ \A j \in 1 .. length : ret.value[j] \in Bytes

\* C21: payload construction never yields a zero-length payload: read_packet
\* returns ZeroSize for an empty file, ReadFailed for a file that cannot be
\* read and otherwise the content of the file unchanged; random_packet
\* returns a buffer of exactly the requested non-zero length.
C21_PayloadNeverEmpty ==
    /\ Returned("read_packet") => ReadPacketOutcome(call.arg, call.ret)
    /\ Returned("random_packet") =>
          call.arg.length >= 1 /\ RandomPacketOutcome(call.arg.length, call.ret)
    /\ Returned("construct_packet") =>
          IF call.arg.has_file
          THEN ReadPacketOutcome(call.arg, call.ret)
          ELSE RandomPacketOutcome(call.arg.length, call.ret)
    /\ call.fn \in {"read_packet", "random_packet", "construct_packet"}
          /\ call.ret.tag = "Ok" => Len(call.ret.value) >= 1

\* read_packet has returned for a readable file that is empty.
C21_Witness ==
    /\ Returned("read_packet")
    /\ call.arg.readable
    /\ call.arg.data = << >>
    /\ call.ret.error = "ZeroSize"

\* The text without its optional leading "+".
Unsigned(text) ==
    IF text # << >> /\ Head(text) = "+" THEN Tail(text) ELSE text

\* The text is a decimal literal of an unsigned integer.
IsUnsignedLiteral(text) ==
    /\ Unsigned(text) # << >>
    /\ \A k \in 1 .. Len(Unsigned(text)) : IsDigit(Unsigned(text)[k])

\* The digits of the literal, as numbers.
LiteralDigits(text) ==
    [k \in 1 .. Len(Unsigned(text)) |-> to_digit(Unsigned(text)[k])]

\* The significant digits: from the first one that is not zero.
Significant(digits) ==
    LET nonzero == {k \in 1 .. Len(digits) : digits[k] # 0}
    IN  IF nonzero = {} THEN << >>
        ELSE SubSeq(digits, CHOOSE k \in nonzero : \A j \in nonzero : k <= j,
                    Len(digits))

\* The number a sequence of at most nine digits denotes.
RECURSIVE AsNat(_)
AsNat(digits) ==
    IF digits = << >> THEN 0
    ELSE 10 * AsNat(SubSeq(digits, 1, Len(digits) - 1)) + digits[Len(digits)]

\* C22: parse_non_zero_usize never returns Ok with the value zero: a text
\* denoting 0 gives the ZeroValue error, a text that is not an unsigned
\* integer within usize (blank, non-numeric, negative, out of range) gives an
\* error, and a text denoting n >= 1 gives Ok(n); so the packet count and the
\* batch size that reach the batch planner are at least 1.
C22_ParsedIsNonZero ==
    Returned("parse_non_zero_usize") =>
        LET text == call.arg.data
            ret == call.ret
        IN  /\ ret.tag = "Ok" => ret.value # << >> /\ ret.value[1] # 0
            /\ ~IsUnsignedLiteral(text) => ret = Err("InvalidFormat")
            /\ IsUnsignedLiteral(text) =>
                  LET n == Significant(LiteralDigits(text))
                  IN  /\ n = << >> => ret = Err("ZeroValue")
                      /\ Exceeds(n, UsizeMax) => ret = Err("InvalidFormat")
                      /\ n # << >> /\ ~Exceeds(n, UsizeMax) => ret = Ok(n)
                      /\ n # << >> /\ Len(LiteralDigits(text)) <= 9 =>
                            /\ ret.tag = "Ok"
                            /\ AsNat(ret.value) = AsNat(LiteralDigits(text))
                            /\ AsNat(ret.value) >= 1

\* parse_non_zero_usize has returned for a two-character text denoting 0.
C22_Witness ==
    /\ Returned("parse_non_zero_usize")
    /\ Len(call.arg.data) = 2
    /\ call.ret.error = "ZeroValue"

\* C23: in every state of a worker packets_sent <= packets_expected, so the
\* unsigned subtraction packets_expected - packets_sent of the shortfall check
\* never underflows, whatever sends succeeded, partly succeeded or failed.
C23_SentAtMostExpected ==
    \A i \in Workers :
        /\ worker[i].summary.packets_sent <= worker[i].summary.packets_expected
        /\ worker[i].pc = "check" => unsent_of(worker[i].summary) >= 0
        /\ worker[i].unsent >= 0

\* A worker is at the shortfall check after a batched send that failed
\* outright and one that went out only in part.
C23_Witness ==
    \E i \in Workers :
        /\ worker[i].pc = "check"
        /\ log[i].send_multiple_errors >= 2
        /\ 0 < worker[i].summary.packets_sent
        /\ worker[i].summary.packets_sent < worker[i].summary.packets_expected
        /\ \E j \in Workers : j # i /\ Done(j) /\ log[j].once_ok >= 1

====
